---- MODULE Spec2Model ----
(***************************************************************************)
(* UTXO block indexer: BlockService.addBlock / rollback / getBalance over  *)
(* the PostgreSQL tables blocks, outputs and balances.                     *)
(*                                                                         *)
(* The three tables are the committed database.  A service call works on a *)
(* checked-out client inside BEGIN..COMMIT: its writes go to a             *)
(* transaction-local copy that replaces the committed tables on COMMIT and *)
(* is dropped on ROLLBACK.  The repository reads getCurrentHeight and      *)
(* getUnspentOutput run through pool.query, i.e. on another connection of  *)
(* the pool, so they read the committed tables, not the caller's           *)
(* uncommitted writes.                                                     *)
(***************************************************************************)
EXTENDS Integers, Sequences, FiniteSets, TLC

\* ------------------------------------------------------------------ bounds
MaxHeight == 3

\* The longest chain of the statement-by-statement runs.
MaxStepHeight == 2

\* ------------------------------------------------------- input alphabets
TxIds == {"a", "b"}
Addresses == {"x", "y"}
Values == {1, 2}
Indexes == {0, 1}

\* SQL NULL of the nullable columns spent_by_tx / spent_at_height: a
\* nullable column holds <<>> (NULL) or <<v>>.
NULL == <<>>

VARIABLES blocks, outputs, balances, call, observed, minted, sessions

vars == <<blocks, outputs, balances, call, observed, minted, sessions>>

\* ------------------------------------------------------------ identity
RECURSIVE JoinIds(_, _)
JoinIds(transactions, i) ==
    IF i > Len(transactions) THEN ""
    ELSE transactions[i].id \o JoinIds(transactions, i + 1)

\* Mutant: the transaction ids are joined last to first.
RECURSIVE JoinIdsBackwards(_, _)
JoinIdsBackwards(transactions, i) ==
    IF i < 1 THEN ""
    ELSE transactions[i].id \o JoinIdsBackwards(transactions, i - 1)

calculateBlockId_Backwards(height, transactions) ==
    ToString(height) \o JoinIdsBackwards(transactions, Len(transactions))

\* Mutant: the transaction ids are left out of the hashed string.
calculateBlockId_HeightOnly(height, transactions) == ToString(height)

\* Mutant: the height is left out of the hashed string.
calculateBlockId_IdsOnly(height, transactions) == JoinIds(transactions, 1)

\* sha256 is taken as injective: a digest is represented by its preimage.
calculateBlockId(height, transactions) ==
    ToString(height) \o JoinIds(transactions, 1)

\* ------------------------------------------------------ BlockRepository
MaxOf(S) == CHOOSE m \in S : \A n \in S : n <= m

getCurrentHeight(blks) ==
    IF blks = {} THEN 0 ELSE MaxOf({b.height : b \in blks})

\* Mutant: the height column is not UNIQUE.
BlockInsertFails_HeightNotUnique(blks, id, height) ==
    \E b \in blks : b.id = id

\* INSERT INTO blocks: id is the primary key, height is UNIQUE.
BlockInsertFails(blks, id, height) ==
    \E b \in blks : b.id = id \/ b.height = height

\* Mutant: the INSERT is left out.
insertBlock_Dropped(blks, id, height) == blks

insertBlock(blks, id, height) ==
    blks \cup {[id |-> id, height |-> height]}

\* Mutant: the comparison is turned around (DELETE ... WHERE height < $1).
deleteBlocksAboveHeight_Below(blks, height) ==
    {b \in blks : ~(b.height < height)}

deleteBlocksAboveHeight(blks, height) ==
    {b \in blks : ~(b.height > height)}

\* ----------------------------------------------------- OutputRepository
\* Mutant: the lookup lacks AND spent = false (it is getOutput).
getUnspentOutput_AnyOutput(outs, txId, index) ==
    {o \in outs : o.tx_id = txId /\ o.output_index = index}

getUnspentOutput(outs, txId, index) ==
    {o \in outs : o.tx_id = txId /\ o.output_index = index /\ o.spent = FALSE}

\* Mutant: outputs has no primary key.
OutputInsertFails_NoPrimaryKey(blks, outs, txId, outputIndex, blockHeight) ==
    ~ \E b \in blks : b.height = blockHeight

\* INSERT INTO outputs: (tx_id, output_index) is the primary key and
\* block_height references blocks(height).
OutputInsertFails(blks, outs, txId, outputIndex, blockHeight) ==
    \/ \E o \in outs : o.tx_id = txId /\ o.output_index = outputIndex
    \/ ~ \E b \in blks : b.height = blockHeight

insertOutput(outs, txId, outputIndex, address, value, blockHeight) ==
    outs \cup {[tx_id |-> txId, output_index |-> outputIndex,
                address |-> address, value |-> value,
                block_height |-> blockHeight, spent |-> FALSE,
                spent_by_tx |-> NULL, spent_at_height |-> NULL]}

markOutputAsSpent(outs, txId, index, spentByTx, spentAtHeight) ==
    {IF o.tx_id = txId /\ o.output_index = index
     THEN [o EXCEPT !.spent = TRUE, !.spent_by_tx = <<spentByTx>>,
                    !.spent_at_height = <<spentAtHeight>>]
     ELSE o : o \in outs}

\* Mutant: the DELETE includes the target height (>= for >).
deleteOutputsAboveHeight_Inclusive(outs, height) ==
    {o \in outs : ~(o.block_height >= height)}

deleteOutputsAboveHeight(outs, height) ==
    {o \in outs : ~(o.block_height > height)}

\* ---------------------------------------------------- BalanceRepository
\* Mutant: the SELECT lacks WHERE address = $1 and the first row is taken.
getBalance_AnyRow(bal, address) ==
    IF DOMAIN bal = {} THEN 0 ELSE bal[CHOOSE a \in DOMAIN bal : TRUE]

getBalance(bal, address) ==
    IF address \in DOMAIN bal THEN bal[address] ELSE 0

\* INSERT ... ON CONFLICT (address) DO UPDATE SET balance = balance + delta
updateBalance(bal, address, delta) ==
    IF address \in DOMAIN bal
    THEN [bal EXCEPT ![address] = @ + delta]
    ELSE [a \in DOMAIN bal \cup {address} |->
             IF a = address THEN delta ELSE bal[a]]

\* ------------------------------------------------------ call outcomes
\* A service call returns null (Ok), returns a ValidationError {error: msg}
\* (the kind names the message, detail its interpolated values) or throws.
Ok == [error |-> "none", detail |-> <<>>]
ValidationError(kind, detail) == [error |-> kind, detail |-> detail]
Thrown == [error |-> "thrown", detail |-> <<>>]

\* ------------------------------------------- BlockService.processTransaction
\* committed: the outputs table as pool.query sees it; t: the tables as
\* written so far by the caller's open transaction.
RECURSIVE ProcessInputs(_, _, _, _, _, _)
ProcessInputs(committed, t, tx, blockHeight, i, inputSum) ==
    IF i > Len(tx.inputs) THEN [t |-> t, sum |-> inputSum, result |-> Ok]
    ELSE LET input == tx.inputs[i]
             found == getUnspentOutput(committed, input.txId, input.index)
         IN IF found = {}
            THEN [t |-> t, sum |-> inputSum,
                  result |-> ValidationError("UnspentOutputNotFound",
                                             <<input.txId, input.index>>)]
            ELSE LET output == CHOOSE o \in found : TRUE
                     t2 == [t EXCEPT
                              !.outputs = markOutputAsSpent(@, input.txId,
                                             input.index, tx.id, blockHeight),
                              !.balances = updateBalance(@, output.address,
                                                         0 - output.value)]
                 IN ProcessInputs(committed, t2, tx, blockHeight, i + 1,
                                  inputSum + output.value)

RECURSIVE ProcessOutputs(_, _, _, _, _)
ProcessOutputs(t, tx, blockHeight, i, outputSum) ==
    IF i >= Len(tx.outputs) THEN [t |-> t, sum |-> outputSum, result |-> Ok]
    ELSE LET output == tx.outputs[i + 1]
         IN IF OutputInsertFails(t.blocks, t.outputs, tx.id, i, blockHeight)
            THEN [t |-> t, sum |-> outputSum + output.value, result |-> Thrown]
            ELSE LET t2 == [t EXCEPT
                              !.outputs = insertOutput(@, tx.id, i,
                                  output.address, output.value, blockHeight),
                              !.balances = updateBalance(@, output.address,
                                                         output.value)]
                 IN ProcessOutputs(t2, tx, blockHeight, i + 1,
                                   outputSum + output.value)

\* Mutant: the check lacks tx.inputs.length > 0.
Unbalanced_AnyTransaction(tx, inputSum, outputSum) ==
    inputSum # outputSum

Unbalanced(tx, inputSum, outputSum) ==
    Len(tx.inputs) > 0 /\ inputSum # outputSum

processTransaction(committed, t, tx, blockHeight) ==
    LET ins == ProcessInputs(committed, t, tx, blockHeight, 1, 0)
    IN IF ins.result # Ok THEN [t |-> ins.t, result |-> ins.result]
       ELSE LET outs == ProcessOutputs(ins.t, tx, blockHeight, 0, 0)
            IN IF outs.result # Ok THEN [t |-> outs.t, result |-> outs.result]
               ELSE IF Unbalanced(tx, ins.sum, outs.sum)
               THEN [t |-> outs.t,
                     result |-> ValidationError("UnbalancedTransaction",
                                                <<ins.sum, outs.sum, tx.id>>)]
               ELSE [t |-> outs.t, result |-> Ok]

\* ------------------------------------------------- BlockService.addBlock
\* Mutant: the transactions of a block are processed last to first.
RECURSIVE ProcessTransactions_LastFirst(_, _, _, _, _)
ProcessTransactions_LastFirst(committed, t, transactions, k, blockHeight) ==
    IF k > Len(transactions) THEN [t |-> t, result |-> Ok]
    ELSE LET r == processTransaction(committed, t,
                     transactions[Len(transactions) + 1 - k], blockHeight)
         IN IF r.result # Ok THEN r
            ELSE ProcessTransactions_LastFirst(committed, r.t, transactions,
                                               k + 1, blockHeight)

RECURSIVE ProcessTransactions(_, _, _, _, _)
ProcessTransactions(committed, t, transactions, k, blockHeight) ==
    IF k > Len(transactions) THEN [t |-> t, result |-> Ok]
    ELSE LET r == processTransaction(committed, t, transactions[k],
                                     blockHeight)
         IN IF r.result # Ok THEN r
            ELSE ProcessTransactions(committed, r.t, transactions, k + 1,
                                     blockHeight)

\* Mutant: only heights at or below the current height are refused.
HeightMismatch_OnlyLower(blockHeight, currentHeight) ==
    blockHeight <= currentHeight

HeightMismatch(blockHeight, currentHeight) ==
    blockHeight # currentHeight + 1

IdMismatch(blockId, expectedId) == blockId # expectedId

\* Mutant: a validation error of a transaction returns without ROLLBACK
\* and the transaction's writes get committed.
addBlock_KeepsPartial(db, block) ==
    LET currentHeight == getCurrentHeight(db.blocks)
        expectedId == calculateBlockId(block.height, block.transactions)
    IN IF HeightMismatch(block.height, currentHeight)
       THEN [db |-> db,
             result |-> ValidationError("InvalidHeight",
                                        <<currentHeight + 1, block.height>>)]
       ELSE IF IdMismatch(block.id, expectedId)
       THEN [db |-> db,
             result |-> ValidationError("InvalidBlockId",
                                        <<expectedId, block.id>>)]
       ELSE IF BlockInsertFails(db.blocks, block.id, block.height)
       THEN [db |-> db, result |-> Thrown]
       ELSE LET t0 == [db EXCEPT
                         !.blocks = insertBlock(@, block.id, block.height)]
                r == ProcessTransactions(db.outputs, t0, block.transactions,
                                         1, block.height)
            IN IF r.result = Thrown THEN [db |-> db, result |-> r.result]
               ELSE [db |-> r.t, result |-> r.result]

\* Mutant: the block id is checked before the height.
addBlock_IdFirst(db, block) ==
    LET currentHeight == getCurrentHeight(db.blocks)
        expectedId == calculateBlockId(block.height, block.transactions)
    IN IF IdMismatch(block.id, expectedId)
       THEN [db |-> db,
             result |-> ValidationError("InvalidBlockId",
                                        <<expectedId, block.id>>)]
       ELSE IF HeightMismatch(block.height, currentHeight)
       THEN [db |-> db,
             result |-> ValidationError("InvalidHeight",
                                        <<currentHeight + 1, block.height>>)]
       ELSE IF BlockInsertFails(db.blocks, block.id, block.height)
       THEN [db |-> db, result |-> Thrown]
       ELSE LET t0 == [db EXCEPT
                         !.blocks = insertBlock(@, block.id, block.height)]
                r == ProcessTransactions(db.outputs, t0, block.transactions,
                                         1, block.height)
            IN IF r.result # Ok THEN [db |-> db, result |-> r.result]
               ELSE [db |-> r.t, result |-> Ok]

\* db: the committed tables.  The value is the committed tables after the
\* call (COMMIT installs the transaction's tables, ROLLBACK and the early
\* returns leave db) and the call's outcome.
addBlock(db, block) ==
    LET currentHeight == getCurrentHeight(db.blocks)
        expectedId == calculateBlockId(block.height, block.transactions)
    IN IF HeightMismatch(block.height, currentHeight)
       THEN [db |-> db,
             result |-> ValidationError("InvalidHeight",
                                        <<currentHeight + 1, block.height>>)]
       ELSE IF IdMismatch(block.id, expectedId)
       THEN [db |-> db,
             result |-> ValidationError("InvalidBlockId",
                                        <<expectedId, block.id>>)]
       ELSE IF BlockInsertFails(db.blocks, block.id, block.height)
       THEN [db |-> db, result |-> Thrown]
       ELSE LET t0 == [db EXCEPT
                         !.blocks = insertBlock(@, block.id, block.height)]
                r == ProcessTransactions(db.outputs, t0, block.transactions,
                                         1, block.height)
            IN IF r.result # Ok THEN [db |-> db, result |-> r.result]
               ELSE [db |-> r.t, result |-> Ok]

\* ------------------------------------------------- BlockService.rollback
\* Mutant: the UPDATE is left out.
UnspendAbove_Nothing(outs, targetHeight) == outs

\* Mutant: the comparison includes the target height (>= for >).
UnspendAbove_Inclusive(outs, targetHeight) ==
    {IF o.spent_at_height # NULL /\ o.spent_at_height[1] >= targetHeight
     THEN [o EXCEPT !.spent = FALSE, !.spent_by_tx = NULL,
                    !.spent_at_height = NULL]
     ELSE o : o \in outs}

\* Mutant: the UPDATE clears the flag and the height but not spent_by_tx.
UnspendAbove_KeepsSpender(outs, targetHeight) ==
    {IF o.spent_at_height # NULL /\ o.spent_at_height[1] > targetHeight
     THEN [o EXCEPT !.spent = FALSE, !.spent_at_height = NULL]
     ELSE o : o \in outs}

\* UPDATE outputs SET spent = false, spent_by_tx = NULL,
\*   spent_at_height = NULL WHERE spent_at_height > targetHeight
UnspendAbove(outs, targetHeight) ==
    {IF o.spent_at_height # NULL /\ o.spent_at_height[1] > targetHeight
     THEN [o EXCEPT !.spent = FALSE, !.spent_by_tx = NULL,
                    !.spent_at_height = NULL]
     ELSE o : o \in outs}

RECURSIVE SumValues(_)
SumValues(S) ==
    IF S = {} THEN 0
    ELSE LET o == CHOOSE e \in S : TRUE IN o.value + SumValues(S \ {o})

\* TRUNCATE balances; INSERT INTO balances SELECT address, SUM(value)
\*   FROM outputs WHERE block_height <= targetHeight AND spent = false
\*   GROUP BY address
RecalculateBalances(outs, targetHeight) ==
    LET rows == {o \in outs : o.block_height <= targetHeight
                              /\ o.spent = FALSE}
    IN [a \in {o.address : o \in rows} |->
           SumValues({o \in rows : o.address = a})]

\* DELETE FROM blocks also deletes the outputs that reference a deleted
\* height (FOREIGN KEY (block_height) ... ON DELETE CASCADE).
CascadeOutputs(outs, deleted) ==
    {o \in outs : ~ \E b \in deleted : b.height = o.block_height}

\* Mutant: the comparison is turned around.
TargetAboveCurrent_Reversed(targetHeight, currentHeight) ==
    targetHeight < currentHeight

TargetAboveCurrent(targetHeight, currentHeight) ==
    targetHeight > currentHeight

\* Mutant: balances is not emptied; the recalculated sums are added to the
\* rows that are there.
rollback_AddsToBalances(db, targetHeight) ==
    LET currentHeight == getCurrentHeight(db.blocks)
    IN IF TargetAboveCurrent(targetHeight, currentHeight)
       THEN [db |-> db,
             result |-> ValidationError("TargetAboveCurrent", <<>>)]
       ELSE LET o1 == UnspendAbove(db.outputs, targetHeight)
                o2 == deleteOutputsAboveHeight(o1, targetHeight)
                b3 == deleteBlocksAboveHeight(db.blocks, targetHeight)
                o3 == CascadeOutputs(o2, db.blocks \ b3)
                new == RecalculateBalances(o3, targetHeight)
                old == db.balances
            IN [db |-> [blocks |-> b3, outputs |-> o3,
                        balances |->
                          [a \in DOMAIN old \cup DOMAIN new |->
                             (IF a \in DOMAIN old THEN old[a] ELSE 0)
                               + (IF a \in DOMAIN new THEN new[a] ELSE 0)]],
                result |-> Ok]

rollback(db, targetHeight) ==
    LET currentHeight == getCurrentHeight(db.blocks)
    IN IF TargetAboveCurrent(targetHeight, currentHeight)
       THEN [db |-> db,
             result |-> ValidationError("TargetAboveCurrent", <<>>)]
       ELSE LET o1 == UnspendAbove(db.outputs, targetHeight)
                o2 == deleteOutputsAboveHeight(o1, targetHeight)
                b3 == deleteBlocksAboveHeight(db.blocks, targetHeight)
                o3 == CascadeOutputs(o2, db.blocks \ b3)
            IN [db |-> [blocks |-> b3, outputs |-> o3,
                        balances |-> RecalculateBalances(o3, targetHeight)],
                result |-> Ok]

\* ------------------------------------------------------- request inputs
Outs == [address : Addresses, value : Values]
Refs == [txId : TxIds, index : Indexes]

ListsUpTo2(S) == {<<>>} \cup {<<e>> : e \in S} \cup {<<e, f>> : e, f \in S}

RECURSIVE SumOf(_, _)
SumOf(outs, i) ==
    IF i > Len(outs) THEN 0 ELSE outs[i].value + SumOf(outs, i + 1)

\* A transaction: up to two inputs and one or two outputs, at most three of
\* them together, the outputs worth at most 2 together.
Transactions ==
    {tx \in [id : TxIds, inputs : ListsUpTo2(Refs),
             outputs : ListsUpTo2(Outs) \ {<<>>}] :
        /\ Len(tx.inputs) + Len(tx.outputs) <= 3
        /\ SumOf(tx.outputs, 1) <= 2}

\* The transactions of two-transaction blocks: at most one input (an
\* index-0 output) and one output of value 1.
SmallTransactions ==
    {tx \in Transactions :
        /\ Len(tx.inputs) <= 1 /\ Len(tx.outputs) = 1
        /\ \A i \in 1..Len(tx.inputs) : tx.inputs[i].index = 0
        /\ tx.outputs[1].value = 1}

\* Two transactions with ids of their own, "b" and "c", that both spend
\* a:0 and pay out 1 each.
SharedInputLists ==
    {<<[id |-> "b", inputs |-> <<[txId |-> "a", index |-> 0]>>,
        outputs |-> <<[address |-> "x", value |-> 1]>>],
       [id |-> "c", inputs |-> <<[txId |-> "a", index |-> 0]>>,
        outputs |-> <<out>>]>> : out \in {o \in Outs : o.value = 1}}

TransactionLists ==
    {<<>>} \cup {<<tx>> : tx \in Transactions}
           \cup {<<t1, t2>> : t1, t2 \in SmallTransactions}
           \cup SharedInputLists

\* The transaction lists of the blocks sent with any height and id: the
\* empty list and the lists of two coinbase transactions with different ids
\* paying 1 to "x".
PlainTransactions ==
    {tx \in SmallTransactions :
        tx.inputs = <<>> /\ tx.outputs = <<[address |-> "x", value |-> 1]>>}

PlainLists ==
    {<<>>} \cup {l \in {<<t1, t2>> : t1, t2 \in PlainTransactions} :
                    l[1].id # l[2].id}

Heights == 1..MaxHeight

\* The callers' own id function (the test suite's calculateBlockId):
\* `${height}${txIds.join('')}` hashed.
RECURSIVE JoinStrings(_, _)
JoinStrings(strings, i) ==
    IF i > Len(strings) THEN ""
    ELSE strings[i] \o JoinStrings(strings, i + 1)

ClientBlockId(height, txIds) == ToString(height) \o JoinStrings(txIds, 1)

IdsOf(transactions) ==
    [i \in 1..Len(transactions) |-> transactions[i].id]

\* The ids a caller may send: the correct one, and the ids of the same
\* transactions reversed or of the next height.
Reverse(seq) == [i \in 1..Len(seq) |-> seq[Len(seq) + 1 - i]]

CandidateIds(height, transactions) ==
    {ClientBlockId(height, IdsOf(transactions)),
     ClientBlockId(height, Reverse(IdsOf(transactions))),
     ClientBlockId(height + 1, IdsOf(transactions))}

Block(id, height, transactions) ==
    [id |-> id, height |-> height, transactions |-> transactions]

\* --------------------------------------------------------- state machine
Idle == [op |-> "idle"]

Db == [blocks |-> blocks, outputs |-> outputs, balances |-> balances]

\* What GET /balance reads for every address.
Reading(bal) == [a \in Addresses |-> getBalance(bal, a)]

\* The status of the reply of POST /blocks and of POST /rollback to what
\* the service call returned or threw: a validation error is sent with 400,
\* the catch block answers 500, anything else is a success.
\* Mutant: a returned validation error is not looked at.
postBlocksStatus_IgnoresError(result) ==
    IF result = Thrown THEN 500 ELSE 200

postBlocksStatus(result) ==
    IF result = Thrown THEN 500 ELSE IF result # Ok THEN 400 ELSE 200

postRollbackStatus(result) ==
    IF result = Thrown THEN 500 ELSE IF result # Ok THEN 400 ELSE 200

\* The calls that run on a client of the pool, statement by statement.
Sessions == {"s1", "s2"}

\* What an open transaction has written and not committed: the rows of
\* blocks and outputs it inserted (ins) and the committed rows it deleted
\* or replaced (del), its balance upserts as a delta for each address, and
\* whether it has emptied balances and what it put there since.
NoWrites ==
    [insB |-> {}, delB |-> {}, insO |-> {}, delO |-> {},
     bal |-> <<>>, truncated |-> FALSE, newBal |-> <<>>]

\* A client that no call holds.
IdleSession ==
    [op |-> "idle", pc |-> "idle", req |-> <<>>, currentHeight |-> 0,
     k |-> 0, i |-> 0, inputSum |-> 0, outputSum |-> 0, found |-> <<>>,
     w |-> NoWrites, result |-> Ok, threwAt |-> "none", txOpen |-> FALSE,
     status |-> 0, checkedOut |-> FALSE, released |-> 0]

\* The value that the transactions without inputs of a list create, from
\* the k-th on.
RECURSIVE Minted(_, _)
Minted(transactions, k) ==
    IF k > Len(transactions) THEN 0
    ELSE (IF transactions[k].inputs = <<>>
          THEN SumOf(transactions[k].outputs, 1) ELSE 0)
         + Minted(transactions, k + 1)

Init ==
    /\ blocks = {}
    /\ outputs = {}
    /\ balances = <<>>
    /\ call = Idle
    /\ observed = <<>>
    /\ minted = <<>>
    /\ sessions = [s \in Sessions |-> IdleSession]

\* POST /blocks with `block`: the whole addBlock call.  The record of the
\* call keeps the record of the call it follows.
Submit(block) ==
    LET r == addBlock(Db, block)
    IN /\ blocks' = r.db.blocks
       /\ outputs' = r.db.outputs
       /\ balances' = r.db.balances
       /\ call' = [op |-> "addBlock", block |-> block,
                   currentHeight |-> getCurrentHeight(blocks),
                   result |-> r.result, after |-> call]
       /\ observed' = IF r.result = Ok
                      THEN Append(observed, Reading(r.db.balances))
                      ELSE observed
       /\ minted' = IF r.result = Ok
                    THEN Append(minted, Minted(block.transactions, 1))
                    ELSE minted
       /\ UNCHANGED sessions

\* A caller that knows the chain submits a well-formed next block over any
\* transaction list.
AddBlock ==
    /\ call = Idle
    /\ getCurrentHeight(blocks) < MaxHeight
    /\ \E transactions \in TransactionLists :
         LET height == getCurrentHeight(blocks) + 1
         IN Submit(Block(ClientBlockId(height, IdsOf(transactions)), height,
                         transactions))

\* Any caller: any height and any candidate id, over the plain lists.
AddAnyBlock ==
    /\ call = Idle
    /\ \E height \in Heights, transactions \in PlainLists :
         \E id \in CandidateIds(height, transactions) :
           Submit(Block(id, height, transactions))

\* A caller whose rollback has just succeeded submits the block that
\* replaces the first discarded one: no transaction or one small one.
ReplacementLists == {<<>>} \cup {<<tx>> : tx \in SmallTransactions}

AddBlockAfterRollback ==
    /\ call.op = "rollback" /\ call.result = Ok
    /\ getCurrentHeight(blocks) < MaxHeight
    /\ \E transactions \in ReplacementLists :
         LET height == getCurrentHeight(blocks) + 1
         IN Submit(Block(ClientBlockId(height, IdsOf(transactions)), height,
                         transactions))

\* POST /rollback?height=targetHeight: the whole rollback call.  The record
\* of the call keeps the outputs table it started from.
Rollback ==
    /\ call = Idle
    /\ \E targetHeight \in 0..MaxHeight :
         LET r == rollback(Db, targetHeight)
         IN /\ blocks' = r.db.blocks
            /\ outputs' = r.db.outputs
            /\ balances' = r.db.balances
            /\ call' = [op |-> "rollback", targetHeight |-> targetHeight,
                        currentHeight |-> getCurrentHeight(blocks),
                        before |-> outputs, result |-> r.result]
            /\ observed' = IF r.result = Ok /\ targetHeight < Len(observed)
                           THEN SubSeq(observed, 1, targetHeight)
                           ELSE observed
            /\ minted' = IF r.result = Ok /\ targetHeight < Len(minted)
                         THEN SubSeq(minted, 1, targetHeight)
                         ELSE minted
            /\ UNCHANGED sessions

\* GET /balance/:address: the whole getBalance call.
GetBalance ==
    /\ call = Idle
    /\ \E address \in Addresses :
         call' = [op |-> "getBalance", address |-> address,
                  result |-> getBalance(balances, address)]
    /\ UNCHANGED <<blocks, outputs, balances, observed, minted, sessions>>

\* The caller whose rollback has just succeeded sends the same request
\* again.
RollbackAgain ==
    /\ call.op = "rollback" /\ call.result = Ok
    /\ LET r == rollback(Db, call.targetHeight)
       IN /\ blocks' = r.db.blocks
          /\ outputs' = r.db.outputs
          /\ balances' = r.db.balances
          /\ call' = [op |-> "rollbackAgain",
                      targetHeight |-> call.targetHeight,
                      currentHeight |-> getCurrentHeight(blocks),
                      first |-> call, result |-> r.result]
          /\ observed' = IF r.result = Ok /\ call.targetHeight < Len(observed)
                         THEN SubSeq(observed, 1, call.targetHeight)
                         ELSE observed
          /\ minted' = IF r.result = Ok /\ call.targetHeight < Len(minted)
                       THEN SubSeq(minted, 1, call.targetHeight)
                       ELSE minted
          /\ UNCHANGED sessions

\* ------------------------------------------------ POST /rollback, the route
\* A query string value is a sequence of characters.  parseInt(string):
\* leading blanks are skipped, a sign is read, then the longest run of
\* decimal digits; NaN (NULL here) when there is no digit.  (The 0x prefix
\* of parseInt is left out: no parameter of HeightParams has an "x".)
DigitChars == {"0", "1", "2", "3", "4", "5", "6", "7", "8", "9"}

DigitValue(c) ==
    CASE c = "0" -> 0 [] c = "1" -> 1 [] c = "2" -> 2 [] c = "3" -> 3
      [] c = "4" -> 4 [] c = "5" -> 5 [] c = "6" -> 6 [] c = "7" -> 7
      [] c = "8" -> 8 [] c = "9" -> 9

RECURSIVE SkipBlanks(_)
SkipBlanks(chars) ==
    IF chars # <<>> /\ Head(chars) = " " THEN SkipBlanks(Tail(chars))
    ELSE chars

RECURSIVE ParseDigits(_, _, _)
ParseDigits(chars, seen, value) ==
    IF chars # <<>> /\ Head(chars) \in DigitChars
    THEN ParseDigits(Tail(chars), TRUE, 10 * value + DigitValue(Head(chars)))
    ELSE IF seen THEN <<value>> ELSE NULL

parseInt(chars) ==
    LET text == SkipBlanks(chars)
        signed == text # <<>> /\ Head(text) \in {"-", "+"}
        digits == ParseDigits(IF signed THEN Tail(text) ELSE text, FALSE, 0)
    IN IF digits = NULL THEN NULL
       ELSE IF signed /\ Head(text) = "-" THEN <<0 - digits[1]>>
       ELSE digits

\* The characters and the length of the height parameters that are sent.
MaxParamLen == 2

HeightChars == {"0", "1", "-", "a"}

HeightParams ==
    {NULL} \cup {<<text>> : text \in UNION {[1..n -> HeightChars] :
                                               n \in 0..MaxParamLen}}

\* The handler of POST /rollback on the database `db`: the reply, whether
\* blockService.rollback was called, and the database it leaves.
postRollback(db, heightParam) ==
    IF heightParam = NULL \/ heightParam[1] = <<>>
    THEN [db |-> db, invoked |-> FALSE, status |-> 400,
          body |-> [error |-> "Height query parameter is required"]]
    ELSE LET targetHeight == parseInt(heightParam[1])
         IN IF targetHeight = NULL \/ targetHeight[1] < 0
            THEN [db |-> db, invoked |-> FALSE, status |-> 400,
                  body |-> [error |-> "Invalid height parameter"]]
            ELSE LET r == rollback(db, targetHeight[1])
                     status == postRollbackStatus(r.result)
                 IN [db |-> r.db, invoked |-> TRUE, status |-> status,
                     body |-> IF status = 500
                              THEN [error |-> "Internal server error"]
                              ELSE IF status = 400
                              THEN [error |-> r.result.error]
                              ELSE [success |-> TRUE,
                                    height |-> targetHeight[1]]]

\* POST /rollback?height=heightParam, or without the parameter: the whole
\* request.
PostRollback ==
    /\ call = Idle
    /\ \E heightParam \in HeightParams :
         LET r == postRollback(Db, heightParam)
         IN /\ blocks' = r.db.blocks
            /\ outputs' = r.db.outputs
            /\ balances' = r.db.balances
            /\ call' = [op |-> "postRollback", heightParam |-> heightParam,
                        invoked |-> r.invoked, status |-> r.status,
                        body |-> r.body]
            /\ observed' = IF r.status = 200
                                /\ r.body.height < Len(observed)
                           THEN SubSeq(observed, 1, r.body.height)
                           ELSE observed
            /\ minted' = IF r.status = 200 /\ r.body.height < Len(minted)
                         THEN SubSeq(minted, 1, r.body.height)
                         ELSE minted
            /\ UNCHANGED sessions

\* The caller has the outcome; the service is free for the next call.
Return ==
    /\ call # Idle
    /\ call' = Idle
    /\ UNCHANGED <<blocks, outputs, balances, observed, minted, sessions>>

Next ==
    \/ AddBlock
    \/ AddAnyBlock
    \/ AddBlockAfterRollback
    \/ Rollback
    \/ RollbackAgain
    \/ PostRollback
    \/ GetBalance
    \/ Return

Spec == Init /\ [][Next]_vars

\* ------------------------------------------- the calls, statement by statement
\* Every await of addBlock and rollback is a step of its session, so the
\* statements of two calls interleave.  The storage is PostgreSQL at READ
\* COMMITTED: a statement on a client sees the committed rows and the
\* writes of the client's own open transaction; a pool.query statement
\* sees the committed rows; a statement that writes a row, or a unique key,
\* that another open transaction has written waits until that transaction
\* ends (the step is not enabled) and then runs on the rows committed by
\* then; COMMIT installs the writes, ROLLBACK drops them.

RECURSIVE ApplyDeltas(_, _)
ApplyDeltas(bal, deltas) ==
    IF DOMAIN deltas = {} THEN bal
    ELSE LET a == CHOOSE x \in DOMAIN deltas : TRUE
         IN ApplyDeltas(updateBalance(bal, a, deltas[a]),
                        [x \in DOMAIN deltas \ {a} |-> deltas[x]])

\* The tables as the statements of an open transaction with writes w see
\* them, and as its COMMIT leaves them.
View(w, db) ==
    [blocks |-> (db.blocks \ w.delB) \cup w.insB,
     outputs |-> (db.outputs \ w.delO) \cup w.insO,
     balances |-> IF w.truncated THEN w.newBal
                  ELSE ApplyDeltas(db.balances, w.bal)]

\* Mutant: pool.query reads the uncommitted writes of an open transaction.
PoolView_Uncommitted ==
    LET busy == {s \in Sessions : sessions[s].w # NoWrites}
    IN IF busy = {} THEN Db
       ELSE View(sessions[CHOOSE s \in busy : TRUE].w, Db)

\* Mutant: pool.query reads the block rows that open transactions have
\* inserted and not committed.
PoolView_DirtyBlocks ==
    [Db EXCEPT !.blocks = @ \cup UNION {sessions[s].w.insB : s \in Sessions}]

\* What a pool.query statement reads: the committed tables.
PoolView == Db

\* The writes of a transaction after a statement took its view of a table
\* to `rows`.
WithBlocks(w, db, rows) ==
    [w EXCEPT !.insB = rows \ db.blocks, !.delB = db.blocks \ rows]

WithOutputs(w, db, rows) ==
    [w EXCEPT !.insO = rows \ db.outputs, !.delO = db.outputs \ rows]

OutputKey(o) == <<o.tx_id, o.output_index>>

\* Row locks: the output keys and the block rows written by the other
\* open transactions.
OtherSessions(s) == Sessions \ {s}

OutputsFree(s, keys) ==
    \A o \in OtherSessions(s) :
       \A r \in sessions[o].w.insO \cup sessions[o].w.delO :
          OutputKey(r) \notin keys

BlocksFree(s, rows) ==
    \A o \in OtherSessions(s) :
       \A r \in sessions[o].w.insB \cup sessions[o].w.delB :
          \A b \in rows : r.id # b.id /\ r.height # b.height

\* An upsert of a balance waits for the other transaction that wrote the
\* row or emptied the table (TRUNCATE holds ACCESS EXCLUSIVE).
BalanceRowFree(s, address) ==
    \A o \in OtherSessions(s) :
       address \notin DOMAIN sessions[o].w.bal /\ ~sessions[o].w.truncated

\* TRUNCATE waits for every other transaction that wrote a balance.
BalancesFree(s) ==
    \A o \in OtherSessions(s) :
       DOMAIN sessions[o].w.bal = {} /\ ~sessions[o].w.truncated

\* A SELECT on balances waits for a TRUNCATE that is not yet committed.
BalancesReadable ==
    \A o \in Sessions : ~sessions[o].w.truncated

\* The rows in one of two versions of a table only.
Changed(rows, new) == (rows \ new) \cup (new \ rows)

\* client.query('BEGIN') opens the transaction of the client; COMMIT and
\* ROLLBACK end it.
Begin(rec) == [rec EXCEPT !.txOpen = TRUE]
EndTransaction(rec) == [rec EXCEPT !.txOpen = FALSE]

\* pool.connect() hands the call a client of the pool.
Connect(rec) == [rec EXCEPT !.checkedOut = TRUE, !.released = 0]

\* Mutant: the client is not released.
Done_KeepsClient(rec, result) ==
    [IdleSession EXCEPT !.op = rec.op, !.pc = "done", !.result = result,
                        !.txOpen = rec.txOpen,
                        !.checkedOut = rec.checkedOut,
                        !.released = rec.released,
                        !.status = IF rec.op = "addBlock"
                                   THEN postBlocksStatus(result)
                                   ELSE postRollbackStatus(result)]

\* The call of a session is over: its client is released with `result`, in
\* the transaction state the call leaves it in, and the handler replies.
Done(rec, result) ==
    [IdleSession EXCEPT !.op = rec.op, !.pc = "done", !.result = result,
                        !.txOpen = rec.txOpen,
                        !.released = rec.released + 1,
                        !.status = IF rec.op = "addBlock"
                                   THEN postBlocksStatus(result)
                                   ELSE postRollbackStatus(result)]

\* Mutant: the catch block ends the transaction with COMMIT.
Catch_Commits(rec, db) ==
    [db |-> View(rec.w, db),
     session |-> [Done(EndTransaction(rec), Thrown)
                     EXCEPT !.threwAt = rec.pc]]

\* catch (error) { ROLLBACK; throw error }: the session keeps the
\* statement that threw.
Catch(rec, db) ==
    [db |-> db,
     session |-> [Done(EndTransaction(rec), Thrown)
                     EXCEPT !.threwAt = rec.pc]]

\* A step of session s that leaves it as `rec` and commits nothing.
Step(s, rec) ==
    /\ sessions' = [sessions EXCEPT ![s] = rec]
    /\ UNCHANGED <<blocks, outputs, balances, call, observed, minted>>

\* A step of session s that leaves the committed tables as `db`.
StepTo(s, rec, db) ==
    /\ sessions' = [sessions EXCEPT ![s] = rec]
    /\ blocks' = db.blocks
    /\ outputs' = db.outputs
    /\ balances' = db.balances
    /\ UNCHANGED <<call, observed, minted>>

At(s, op, pc) ==
    call = Idle /\ sessions[s].op = op /\ sessions[s].pc = pc

\* ------------------------------------------------------ addBlock, stepwise
\* The position of an addBlock call before transaction k of its block.
Enter(rec, k) ==
    IF k > Len(rec.req.transactions) THEN [rec EXCEPT !.pc = "commit"]
    ELSE LET tx == rec.req.transactions[k]
             at == [rec EXCEPT !.k = k, !.i = 1, !.inputSum = 0,
                               !.outputSum = 0, !.found = <<>>]
         IN IF Len(tx.inputs) > 0 THEN [at EXCEPT !.pc = "lookup"]
            ELSE [at EXCEPT !.pc = "insertOutput", !.i = 0]

\* After the outputs of transaction k: the sum check, then the next
\* transaction.  A validation error is returned after ROLLBACK.
Check(rec) ==
    LET tx == rec.req.transactions[rec.k]
    IN IF Unbalanced(tx, rec.inputSum, rec.outputSum)
       THEN Done(EndTransaction(rec),
                 ValidationError("UnbalancedTransaction",
                         <<rec.inputSum, rec.outputSum, tx.id>>))
       ELSE Enter(rec, rec.k + 1)

\* After the inputs of transaction k.
AfterInputs(rec) ==
    IF Len(rec.req.transactions[rec.k].outputs) = 0 THEN Check(rec)
    ELSE [rec EXCEPT !.pc = "insertOutput", !.i = 0]

\* The blocks of the statement-by-statement runs: no transaction, "a"
\* that pays 1 to "x" without inputs, or "b" that spends a:0 and pays 1 to
\* "y".
StepLists ==
    {<<>>,
     <<[id |-> "a", inputs |-> <<>>,
        outputs |-> <<[address |-> "x", value |-> 1]>>]>>,
     <<[id |-> "b", inputs |-> <<[txId |-> "a", index |-> 0]>>,
        outputs |-> <<[address |-> "y", value |-> 1]>>]>>}

\* POST /blocks: pool.connect().  The caller built the next block of the
\* chain it knows.
StartAddBlock(s) ==
    /\ At(s, "idle", "idle")
    /\ getCurrentHeight(blocks) < MaxStepHeight
    /\ \E transactions \in StepLists :
         LET height == getCurrentHeight(blocks) + 1
             block == Block(ClientBlockId(height, IdsOf(transactions)),
                            height, transactions)
         IN Step(s, [Connect(sessions[s])
                        EXCEPT !.op = "addBlock", !.pc = "height",
                               !.req = block])

\* BEGIN, getCurrentHeight, the height check and the id check.
AddBlockReadHeight(s) ==
    /\ At(s, "addBlock", "height")
    /\ LET rec == Begin(sessions[s])
           block == rec.req
           currentHeight == getCurrentHeight(PoolView.blocks)
           expectedId == calculateBlockId(block.height, block.transactions)
       IN IF HeightMismatch(block.height, currentHeight)
          THEN Step(s, Done(rec, ValidationError("InvalidHeight",
                                   <<currentHeight + 1, block.height>>)))
          ELSE IF IdMismatch(block.id, expectedId)
          THEN Step(s, Done(rec, ValidationError("InvalidBlockId",
                                   <<expectedId, block.id>>)))
          ELSE Step(s, [rec EXCEPT !.pc = "insertBlock",
                                   !.currentHeight = currentHeight])

InsertBlockStep(s) ==
    /\ At(s, "addBlock", "insertBlock")
    /\ LET rec == sessions[s]
           block == rec.req
           v == View(rec.w, Db)
       IN /\ BlocksFree(s, {[id |-> block.id, height |-> block.height]})
          /\ IF BlockInsertFails(v.blocks, block.id, block.height)
             THEN LET c == Catch(rec, Db) IN StepTo(s, c.session, c.db)
             ELSE Step(s, Enter(
                     [rec EXCEPT !.w = WithBlocks(rec.w, Db,
                         insertBlock(v.blocks, block.id, block.height))], 1))

\* getUnspentOutput of input i of transaction k.
LookupStep(s) ==
    /\ At(s, "addBlock", "lookup")
    /\ LET rec == sessions[s]
           input == rec.req.transactions[rec.k].inputs[rec.i]
           found == getUnspentOutput(PoolView.outputs, input.txId,
                                     input.index)
       IN IF found = {}
          THEN Step(s, Done(EndTransaction(rec),
                            ValidationError("UnspentOutputNotFound",
                                            <<input.txId, input.index>>)))
          ELSE Step(s, [rec EXCEPT !.pc = "markSpent",
                                   !.found = CHOOSE o \in found : TRUE])

MarkSpentStep(s) ==
    /\ At(s, "addBlock", "markSpent")
    /\ LET rec == sessions[s]
           tx == rec.req.transactions[rec.k]
           input == tx.inputs[rec.i]
           v == View(rec.w, Db)
           rows == markOutputAsSpent(v.outputs, input.txId, input.index,
                                     tx.id, rec.req.height)
       IN /\ OutputsFree(s, {<<input.txId, input.index>>})
          /\ Step(s, [rec EXCEPT !.pc = "debit",
                                 !.w = WithOutputs(rec.w, Db, rows)])

\* updateBalance(output.address, -output.value); inputSum += output.value
DebitStep(s) ==
    /\ At(s, "addBlock", "debit")
    /\ LET rec == sessions[s]
           tx == rec.req.transactions[rec.k]
           output == rec.found
           r2 == [rec EXCEPT
                    !.w.bal = updateBalance(@, output.address,
                                            0 - output.value),
                    !.inputSum = @ + output.value]
       IN /\ BalanceRowFree(s, output.address)
          /\ Step(s, IF rec.i < Len(tx.inputs)
                     THEN [r2 EXCEPT !.pc = "lookup", !.i = rec.i + 1,
                                     !.found = <<>>]
                     ELSE AfterInputs([r2 EXCEPT !.found = <<>>]))

\* insertOutput of output i (0-based) of transaction k.
InsertOutputStep(s) ==
    /\ At(s, "addBlock", "insertOutput")
    /\ LET rec == sessions[s]
           tx == rec.req.transactions[rec.k]
           output == tx.outputs[rec.i + 1]
           v == View(rec.w, Db)
       IN /\ OutputsFree(s, {<<tx.id, rec.i>>})
          /\ IF OutputInsertFails(v.blocks, v.outputs, tx.id, rec.i,
                                  rec.req.height)
             THEN LET c == Catch(rec, Db) IN StepTo(s, c.session, c.db)
             ELSE Step(s, [rec EXCEPT
                             !.pc = "credit",
                             !.w = WithOutputs(rec.w, Db,
                                     insertOutput(v.outputs, tx.id, rec.i,
                                        output.address, output.value,
                                        rec.req.height))])

\* updateBalance(output.address, output.value); outputSum += output.value
CreditStep(s) ==
    /\ At(s, "addBlock", "credit")
    /\ LET rec == sessions[s]
           tx == rec.req.transactions[rec.k]
           output == tx.outputs[rec.i + 1]
           r2 == [rec EXCEPT
                    !.w.bal = updateBalance(@, output.address, output.value),
                    !.outputSum = @ + output.value]
       IN /\ BalanceRowFree(s, output.address)
          /\ Step(s, IF rec.i + 1 < Len(tx.outputs)
                     THEN [r2 EXCEPT !.pc = "insertOutput", !.i = rec.i + 1]
                     ELSE Check(r2))

\* COMMIT of either call.
CommitStep(s) ==
    /\ call = Idle
    /\ sessions[s].pc = "commit"
    /\ StepTo(s, Done(EndTransaction(sessions[s]), Ok),
              View(sessions[s].w, Db))

\* The statement a call is waiting for throws (connection lost, timeout,
\* deadlock): the catch block runs.
FailStep(s) ==
    /\ call = Idle
    /\ sessions[s].op # "idle" /\ sessions[s].pc # "done"
    /\ LET c == Catch(sessions[s], Db) IN StepTo(s, c.session, c.db)

\* The caller has the outcome and the client is back in the pool.
FinishStep(s) ==
    /\ call = Idle
    /\ sessions[s].pc = "done"
    /\ Step(s, [IdleSession EXCEPT !.txOpen = sessions[s].txOpen])

\* ------------------------------------------------------ rollback, stepwise
\* POST /rollback?height=targetHeight: pool.connect().
StartRollback(s) ==
    /\ At(s, "idle", "idle")
    /\ \E targetHeight \in 0..MaxStepHeight :
         Step(s, [Connect(sessions[s])
                     EXCEPT !.op = "rollback", !.pc = "height",
                            !.req = targetHeight])

\* getCurrentHeight and the target check.
RollbackReadHeight(s) ==
    /\ At(s, "rollback", "height")
    /\ LET rec == sessions[s]
           currentHeight == getCurrentHeight(PoolView.blocks)
       IN IF TargetAboveCurrent(rec.req, currentHeight)
          THEN Step(s, Done(rec, ValidationError("TargetAboveCurrent", <<>>)))
          ELSE Step(s, [rec EXCEPT !.pc = "unspend",
                                   !.currentHeight = currentHeight])

\* BEGIN; UPDATE outputs SET spent = false ... WHERE spent_at_height > $1
UnspendStep(s) ==
    /\ At(s, "rollback", "unspend")
    /\ LET rec == Begin(sessions[s])
           v == View(rec.w, Db)
           rows == UnspendAbove(v.outputs, rec.req)
       IN /\ OutputsFree(s, {OutputKey(o) : o \in Changed(v.outputs, rows)})
          /\ Step(s, [rec EXCEPT !.pc = "deleteOutputs",
                                 !.w = WithOutputs(rec.w, Db, rows)])

DeleteOutputsStep(s) ==
    /\ At(s, "rollback", "deleteOutputs")
    /\ LET rec == sessions[s]
           v == View(rec.w, Db)
           rows == deleteOutputsAboveHeight(v.outputs, rec.req)
       IN /\ OutputsFree(s, {OutputKey(o) : o \in Changed(v.outputs, rows)})
          /\ Step(s, [rec EXCEPT !.pc = "deleteBlocks",
                                 !.w = WithOutputs(rec.w, Db, rows)])

\* DELETE FROM blocks WHERE height > $1, with the cascade to outputs.
DeleteBlocksStep(s) ==
    /\ At(s, "rollback", "deleteBlocks")
    /\ LET rec == sessions[s]
           v == View(rec.w, Db)
           b3 == deleteBlocksAboveHeight(v.blocks, rec.req)
           o3 == CascadeOutputs(v.outputs, v.blocks \ b3)
       IN /\ BlocksFree(s, v.blocks \ b3)
          /\ OutputsFree(s, {OutputKey(o) : o \in Changed(v.outputs, o3)})
          /\ Step(s, [rec EXCEPT
                        !.pc = "truncate",
                        !.w = WithOutputs(WithBlocks(rec.w, Db, b3), Db, o3)])

\* TRUNCATE balances
TruncateStep(s) ==
    /\ At(s, "rollback", "truncate")
    /\ BalancesFree(s)
    /\ Step(s, [sessions[s] EXCEPT !.pc = "recalculate",
                                   !.w.truncated = TRUE,
                                   !.w.bal = <<>>, !.w.newBal = <<>>])

\* INSERT INTO balances SELECT address, SUM(value) FROM outputs ...
RecalculateStep(s) ==
    /\ At(s, "rollback", "recalculate")
    /\ LET rec == sessions[s]
           v == View(rec.w, Db)
       IN Step(s, [rec EXCEPT
                     !.pc = "commit",
                     !.w.newBal = RecalculateBalances(v.outputs, rec.req)])

\* ------------------------------------------------- getBalance, concurrent
\* GET /balance/:address while a transaction has uncommitted writes.
ReadBalance ==
    /\ call = Idle
    /\ \E s \in Sessions : sessions[s].w # NoWrites
    /\ BalancesReadable
    /\ \E address \in Addresses :
         call' = [op |-> "getBalance", address |-> address,
                  result |-> getBalance(PoolView.balances, address)]
    /\ UNCHANGED <<blocks, outputs, balances, observed, minted, sessions>>

NextSteps ==
    \/ \E s \in Sessions :
          \/ StartAddBlock(s)
          \/ AddBlockReadHeight(s)
          \/ InsertBlockStep(s)
          \/ LookupStep(s)
          \/ MarkSpentStep(s)
          \/ DebitStep(s)
          \/ InsertOutputStep(s)
          \/ CreditStep(s)
          \/ StartRollback(s)
          \/ RollbackReadHeight(s)
          \/ UnspendStep(s)
          \/ DeleteOutputsStep(s)
          \/ DeleteBlocksStep(s)
          \/ TruncateStep(s)
          \/ RecalculateStep(s)
          \/ CommitStep(s)
          \/ FailStep(s)
          \/ FinishStep(s)
    \/ ReadBalance
    \/ Return

SpecSteps == Init /\ [][NextSteps]_vars

\* Concurrent addBlock calls alone: every interleaving of the statements of
\* the calls of POST /blocks, with no rollback in between.
NextAddBlocks ==
    \E s \in Sessions :
       \/ StartAddBlock(s)
       \/ AddBlockReadHeight(s)
       \/ InsertBlockStep(s)
       \/ LookupStep(s)
       \/ MarkSpentStep(s)
       \/ DebitStep(s)
       \/ InsertOutputStep(s)
       \/ CreditStep(s)
       \/ CommitStep(s)
       \/ FailStep(s)
       \/ FinishStep(s)

SpecAddBlocks == Init /\ [][NextAddBlocks]_vars

\* ================================================================ claims
\* The chain height as the specification defines it: the greatest recorded
\* height, 0 for no block.
TopHeight(blks) ==
    IF blks = {} THEN 0
    ELSE CHOOSE h \in {b.height : b \in blks} :
            \A b \in blks : b.height <= h

RECURSIVE TotalValue(_)
TotalValue(S) ==
    IF S = {} THEN 0
    ELSE LET o == CHOOSE e \in S : TRUE IN o.value + TotalValue(S \ {o})

\* What a reader gets for `address`: its record's balance, 0 without one.
BalanceRead(bal, address) ==
    IF address \in DOMAIN bal THEN bal[address] ELSE 0

\* The outputs of `address` that are unspent and created at or below h.
UnspentOf(outs, address, h) ==
    {o \in outs : o.address = address /\ o.spent = FALSE
                  /\ o.block_height <= h}

AddBlockReturned == call.op = "addBlock"
RollbackReturned == call.op = "rollback"

\* A call is made from the idle state; the primed state is the state after
\* the whole call.
AddBlockCall == call.op # "addBlock" /\ call'.op = "addBlock"
RollbackCall == call = Idle /\ call'.op = "rollback"

Unchanged == blocks' = blocks /\ outputs' = outputs /\ balances' = balances

\* The inputs of a block, in order, with the transaction that holds them.
InputsOf(block) ==
    {p \in (1..2) \X (1..2) :
        p[1] <= Len(block.transactions)
        /\ p[2] <= Len(block.transactions[p[1]].inputs)}

InputAt(block, p) == block.transactions[p[1]].inputs[p[2]]

\* C1: after every completed call, the balance read for every address is
\* the sum of the values of its unspent outputs created at or below the
\* current height.
C1_BalanceIsUnspentSum ==
    \A a \in Addresses :
       BalanceRead(balances, a) =
          TotalValue(UnspentOf(outputs, a, TopHeight(blocks)))

\* No unspent output of `outs` has the identity `ref`.
NotUnspent(outs, ref) ==
    ~ \E o \in outs : o.tx_id = ref.txId /\ o.output_index = ref.index
                       /\ o.spent = FALSE

HasDuplicateRef(block) ==
    \E p, q \in InputsOf(block) :
       p # q /\ InputAt(block, p) = InputAt(block, q)

WellFormed(block, blks) ==
    /\ block.height = TopHeight(blks) + 1
    /\ block.id = ClientBlockId(block.height, IdsOf(block.transactions))

\* The transactions of `block` with an input that references no unspent
\* output of `outs`.
BadTransactions(block, outs) ==
    {p[1] : p \in {q \in InputsOf(block) :
                      NotUnspent(outs, InputAt(block, q))}}

\* C2: a block with an input that references an output that does not exist
\* or is already spent in the committed ledger is never accepted and
\* changes nothing.  When its height and id are right the outcome is
\* UnspentOutputNotFound, unless the block's first transaction is not the
\* one with that input and fails first (unbalanced, or a failed insert).
\* addBlock leaves every spent output as it is, so an output is spent at
\* most once until a rollback.
C2_NoDoubleSpend ==
    [][AddBlockCall =>
         LET block == call'.block
             bad == BadTransactions(block, outputs)
         IN /\ bad # {} => (call'.result # Ok /\ Unchanged)
            /\ (/\ bad # {}
                /\ WellFormed(block, blocks)
                /\ \A b \in blocks : b.id # block.id)
                => \/ call'.result.error = "UnspentOutputNotFound"
                   \/ /\ 1 \notin bad
                      /\ \/ call'.result = Thrown
                         \/ /\ call'.result.error = "UnbalancedTransaction"
                            /\ call'.result.detail[3]
                                  = block.transactions[1].id
            /\ \A o \in outputs : o.spent => o \in outputs']_vars

\* C2 witness: a second spend of an output that an accepted block already
\* spent was rejected with UnspentOutputNotFound.
C2_Witness ==
    /\ AddBlockReturned
    /\ call.result.error = "UnspentOutputNotFound"
    /\ \E o \in outputs :
          /\ o.spent /\ o.spent_at_height[1] < call.block.height
          /\ call.result.detail = <<o.tx_id, o.output_index>>

\* C3: a block in which two inputs reference the same output is rejected.
C3_DuplicateRefRejected ==
    (AddBlockReturned /\ HasDuplicateRef(call.block)) => call.result # Ok

\* C4: every transaction that spent outputs spent exactly the value it
\* created.
SpentBy(outs, txId) == {o \in outs : o.spent_by_tx = <<txId>>}
CreatedBy(outs, txId) == {o \in outs : o.tx_id = txId}

C4_Conservation ==
    \A txId \in TxIds :
       SpentBy(outputs, txId) # {}
       => TotalValue(SpentBy(outputs, txId))
             = TotalValue(CreatedBy(outputs, txId))

\* C5: a rejected (or failed) addBlock leaves the blocks, every output and
\* every balance as they were before the call.
C5_RejectionChangesNothing ==
    [][(AddBlockCall /\ call'.result # Ok) => Unchanged]_vars

\* C5 witness: the second transaction of a block was rejected for its input
\* after the first transaction had spent an unspent output and created its
\* output.
C5_Witness ==
    /\ AddBlockReturned
    /\ Len(call.block.transactions) = 2
    /\ LET t1 == call.block.transactions[1]
           t2 == call.block.transactions[2]
       IN /\ Len(t1.inputs) = 1 /\ Len(t2.inputs) = 1
          /\ ~ NotUnspent(outputs, t1.inputs[1])
          /\ t1.inputs[1] # t2.inputs[1]
          /\ \A o \in outputs : o.tx_id # t1.id
          /\ call.result.error = "UnspentOutputNotFound"
          /\ call.result.detail = <<t2.inputs[1].txId, t2.inputs[1].index>>

\* C6: the recorded heights are exactly 1..h, one block each, h the current
\* height.
C6_HeightsGapless ==
    /\ {b.height : b \in blocks} = 1..TopHeight(blocks)
    /\ Cardinality(blocks) = TopHeight(blocks)

\* C6 witness: a rollback below the top of a three-block chain has returned.
C6_Witness ==
    /\ RollbackReturned /\ call.result = Ok
    /\ call.currentHeight = 3 /\ call.targetHeight = 1
    /\ Cardinality(blocks) = 1

\* C7: a block whose height is not the current height + 1 is rejected with
\* InvalidHeight naming the expected height, and nothing changes.
C7_InvalidHeight ==
    [][(AddBlockCall /\ call'.block.height # TopHeight(blocks) + 1)
         => /\ call'.result.error = "InvalidHeight"
            /\ call'.result.detail[1] = TopHeight(blocks) + 1
            /\ Unchanged]_vars

\* C7 witness: a block of height 2 was rejected on the empty chain.
C7_Witness ==
    /\ AddBlockReturned
    /\ blocks = {} /\ call.block.height = 2
    /\ call.result.error = "InvalidHeight" /\ call.result.detail[1] = 1

\* C8: a block of the right height whose id is not the hash of its height
\* and transaction ids in order is rejected with InvalidBlockId; the height
\* and the balances stay as they were.
C8_InvalidBlockId ==
    [][(/\ AddBlockCall
        /\ call'.block.height = TopHeight(blocks) + 1
        /\ call'.block.id # ClientBlockId(call'.block.height,
                                          IdsOf(call'.block.transactions)))
         => /\ call'.result.error = "InvalidBlockId"
            /\ TopHeight(blocks') = TopHeight(blocks)
            /\ balances' = balances]_vars

\* C8 witness: a block of the right height carrying the id of its
\* transactions in reverse order was rejected with InvalidBlockId.
C8_Witness ==
    /\ AddBlockReturned
    /\ call.block.height = TopHeight(blocks) + 1
    /\ Len(call.block.transactions) = 2
    /\ call.block.id = ClientBlockId(call.block.height,
                                     Reverse(IdsOf(call.block.transactions)))
    /\ call.result.error = "InvalidBlockId"

\* C9: after a rollback to a height k below the current height the balance
\* read for every address is the one observed right after block k was
\* accepted (0 for k = 0).
C9_RollbackRestoresBalances ==
    [][(/\ RollbackCall /\ call'.result = Ok
        /\ call'.targetHeight < TopHeight(blocks))
         => \A a \in Addresses :
               BalanceRead(balances', a) =
                  IF call'.targetHeight = 0 THEN 0
                  ELSE observed[call'.targetHeight][a]]_vars

\* C10: after a successful rollback to t no block and no output is above t,
\* every remaining output that was spent above t is unspent with its
\* spender and spending height cleared, and every output spent at or below
\* t is still there, spent by the same transaction at the same height.
Cleared(o) ==
    [o EXCEPT !.spent = FALSE, !.spent_by_tx = <<>>, !.spent_at_height = <<>>]

C10_RollbackPostcondition ==
    [][(RollbackCall /\ call'.result = Ok)
         => LET t == call'.targetHeight
            IN /\ \A b \in blocks' : b.height <= t
               /\ \A o \in outputs' : o.block_height <= t
               /\ \A o \in outputs :
                     /\ (o.spent /\ o.spent_at_height[1] > t
                         /\ o.block_height <= t) => Cleared(o) \in outputs'
                     /\ (o.spent /\ o.spent_at_height[1] <= t)
                           => o \in outputs']_vars

\* C10 witness: a rollback from height 3 to 2 has returned and left an
\* output created at height 1 spent at height 2.
C10_Witness ==
    /\ RollbackReturned /\ call.result = Ok
    /\ call.currentHeight = 3 /\ call.targetHeight = 2
    /\ \E o \in outputs :
          o.block_height = 1 /\ o.spent /\ o.spent_at_height = <<2>>

\* ------------------------------------------------------------ C11 .. C16
SameReadings ==
    \A a \in Addresses : BalanceRead(balances', a) = BalanceRead(balances, a)

\* C11: a rollback to a height above the current height fails with
\* TargetAboveCurrent and leaves blocks, outputs and balances as they were.
C11_TargetAboveCurrent ==
    [][(RollbackCall /\ call'.targetHeight > TopHeight(blocks))
         => /\ call'.result.error = "TargetAboveCurrent"
            /\ Unchanged]_vars

\* C11 witness: on a chain with outputs a rollback to the height above the
\* current one was refused.
C11_Witness ==
    /\ RollbackReturned
    /\ outputs # {}
    /\ call.targetHeight = TopHeight(blocks) + 1
    /\ call.result.error = "TargetAboveCurrent"

\* The positions of the outputs of a block: <<transaction, output>>.
OutputsOf(block) ==
    {p \in (1..2) \X (1..2) :
        p[1] <= Len(block.transactions)
        /\ p[2] <= Len(block.transactions[p[1]].outputs)}

OutputAt(block, p) == block.transactions[p[1]].outputs[p[2]]

RECURSIVE SumAt(_, _)
SumAt(block, P) ==
    IF P = {} THEN 0
    ELSE LET p == CHOOSE q \in P : TRUE
         IN OutputAt(block, p).value + SumAt(block, P \ {p})

\* What the outputs of a block pay to `address`.
Credit(block, address) ==
    SumAt(block, {p \in OutputsOf(block) :
                     OutputAt(block, p).address = address})

\* The outputs of `outs` that the inputs of a block reference.
Referenced(block, outs) ==
    {o \in outs : \E p \in InputsOf(block) :
        InputAt(block, p) = [txId |-> o.tx_id, index |-> o.output_index]}

\* What the inputs of a block take from `address`.
Debit(block, outs, address) ==
    TotalValue({o \in Referenced(block, outs) : o.address = address})

\* The transaction ids of a block differ and none has an output in `outs`.
FreshIds(block, outs) ==
    /\ \A i, j \in 1..Len(block.transactions) :
          i # j => block.transactions[i].id # block.transactions[j].id
    /\ \A i \in 1..Len(block.transactions) :
          \A o \in outs : o.tx_id # block.transactions[i].id

\* Every transaction with inputs spends the value it creates.
Balanced(block, outs) ==
    \A i \in 1..Len(block.transactions) :
       LET tx == block.transactions[i]
           one == [block EXCEPT !.transactions = <<tx>>]
       IN tx.inputs # <<>>
          => TotalValue(Referenced(one, outs))
                = SumAt(one, OutputsOf(one))

\* The rollback of record `rb` discarded the only spend of these outputs,
\* created at or below its target.
Freed(rb) ==
    {o \in rb.before : /\ o.spent
                       /\ o.spent_at_height[1] > rb.targetHeight
                       /\ o.block_height <= rb.targetHeight}

\* The outputs a block accepted right after the rollback `rb` may spend:
\* those created at or below the target that were unspent or freed.
Spendable(rb) ==
    {Cleared(o) : o \in Freed(rb)}
       \cup {o \in rb.before : ~o.spent /\ o.block_height <= rb.targetHeight}

\* A block is valid right after the rollback `rb`: the next height, its own
\* id, fresh transaction ids, inputs that reference different spendable
\* outputs, balanced transactions.
ValidAfter(block, rb) ==
    /\ block.height = rb.targetHeight + 1
    /\ block.id = ClientBlockId(block.height, IdsOf(block.transactions))
    /\ FreshIds(block, {o \in rb.before :
                           o.block_height <= rb.targetHeight})
    /\ ~HasDuplicateRef(block)
    /\ \A p \in InputsOf(block) :
          \E o \in Spendable(rb) :
             InputAt(block, p) = [txId |-> o.tx_id, index |-> o.output_index]
    /\ Balanced(block, Spendable(rb))

\* C12: after a successful rollback to t the chain is at t, and a valid
\* block of height t + 1 submitted next is accepted, also when it spends an
\* output whose only spend was discarded; the block is recorded and every
\* balance is the one after the rollback plus what the block pays to the
\* address minus what it takes from it.
C12_ReplaceAfterRollback ==
    [][(/\ call.op = "rollback" /\ call.result = Ok
        /\ call'.op = "addBlock")
         => /\ TopHeight(blocks) = call.targetHeight
            /\ ValidAfter(call'.block, call)
                  => /\ call'.result = Ok
                     /\ TopHeight(blocks') = call.targetHeight + 1
                     /\ \E b \in blocks' : b.id = call'.block.id
                     /\ \A a \in Addresses :
                           BalanceRead(balances', a) =
                              BalanceRead(balances, a)
                                 + Credit(call'.block, a)
                                 - Debit(call'.block, outputs, a)]_vars

\* C12 witness: a block accepted right after a rollback that discarded
\* blocks spends an output that a discarded block had spent.
C12_Witness ==
    /\ AddBlockReturned /\ call.result = Ok
    /\ call.after.op = "rollback"
    /\ call.after.targetHeight < call.after.currentHeight
    /\ call.block.height = call.after.targetHeight + 1
    /\ \E o \in Freed(call.after) : \E p \in InputsOf(call.block) :
          InputAt(call.block, p) = [txId |-> o.tx_id, index |-> o.output_index]

\* C13: a rollback to the current height succeeds and leaves the blocks,
\* every output and the balance read for every address as they were.
C13_RollbackToCurrentIsNoOp ==
    [][(RollbackCall /\ call'.targetHeight = TopHeight(blocks))
         => /\ call'.result = Ok
            /\ blocks' = blocks /\ outputs' = outputs
            /\ SameReadings]_vars

\* C14: a block of the next height with its own id and no transactions is
\* accepted, raises the current height by one and leaves every output and
\* every balance as it was.
C14_EmptyBlock ==
    [][(/\ AddBlockCall
        /\ WellFormed(call'.block, blocks)
        /\ call'.block.transactions = <<>>)
         => /\ call'.result = Ok
            /\ TopHeight(blocks') = TopHeight(blocks) + 1
            /\ outputs' = outputs
            /\ balances' = balances]_vars

\* C14 witness: an empty block was accepted on a chain that has outputs.
C14_Witness ==
    /\ AddBlockReturned /\ call.result = Ok
    /\ call.block.transactions = <<>>
    /\ call.block.height = 2
    /\ outputs # {}

AllCoinbase(block) ==
    \A i \in 1..Len(block.transactions) :
       block.transactions[i].inputs = <<>>

\* C15: the balance check never rejects a transaction without inputs, and
\* a block of the next height with its own id whose transactions are all
\* without inputs and have fresh ids is accepted whatever its outputs are
\* worth; each output is in the ledger and credits its address.
C15_CoinbaseExempt ==
    [][AddBlockCall =>
         LET block == call'.block
         IN /\ call'.result.error = "UnbalancedTransaction"
                 => \E i \in 1..Len(block.transactions) :
                       /\ block.transactions[i].id = call'.result.detail[3]
                       /\ block.transactions[i].inputs # <<>>
            /\ (/\ WellFormed(block, blocks)
                /\ AllCoinbase(block)
                /\ FreshIds(block, outputs))
                 => /\ call'.result = Ok
                    /\ \A p \in OutputsOf(block) :
                          \E o \in outputs' :
                             /\ o.tx_id = block.transactions[p[1]].id
                             /\ o.output_index = p[2] - 1
                             /\ o.address = OutputAt(block, p).address
                             /\ o.value = OutputAt(block, p).value
                    /\ \A a \in Addresses :
                          BalanceRead(balances', a) =
                             BalanceRead(balances, a) + Credit(block, a)]_vars

\* C15 witness: a block with one transaction without inputs that pays 1 to
\* each of two addresses was accepted on a chain with balances.
C15_Witness ==
    /\ AddBlockReturned /\ call.result = Ok
    /\ call.currentHeight = 1
    /\ Len(call.block.transactions) = 1
    /\ call.block.transactions[1].inputs = <<>>
    /\ Len(call.block.transactions[1].outputs) = 2
    /\ Credit(call.block, "x") = 1 /\ Credit(call.block, "y") = 1
    /\ BalanceRead(balances, "x") = 2

\* C16: getBalance returns the balance the committed table holds for the
\* address, 0 for an address without a record, and changes no table.
C16_GetBalance ==
    [][(call = Idle /\ call'.op = "getBalance")
         => /\ call'.result = BalanceRead(balances, call'.address)
            /\ call'.address \notin DOMAIN balances => call'.result = 0
            /\ Unchanged]_vars

\* C16 witness: on a two-block chain where one address alone has a record a
\* getBalance of that address returned its balance.
C16_Witness ==
    /\ call.op = "getBalance"
    /\ call.result = 2
    /\ DOMAIN balances = {call.address}
    /\ Cardinality(blocks) = 2

\* ------------------------------------------------------------ C17 .. C20
\* The call of session s is between its read of the current height and its
\* commit or abort.
InFlight(s) ==
    sessions[s].op # "idle" /\ sessions[s].pc \notin {"idle", "height", "done"}

\* C17: at no time are two addBlock or rollback calls both between their
\* read of the current height and their commit or abort.
C17_MutualExclusion ==
    Cardinality({s \in Sessions : InFlight(s)}) <= 1

\* C18: under every interleaving of the statements of concurrent addBlock
\* and rollback calls the committed heights are 1, 2, .. without a gap, one
\* block each.
C18_GaplessUnderInterleaving ==
    /\ \A b \in blocks : b.height \in 1..Cardinality(blocks)
    /\ \A b, c \in blocks : b.height = c.height => b = c

\* C19: a getBalance that runs while a transaction is open returns the
\* balance the committed table holds for the address, never one that an
\* open transaction has written and not committed, and changes nothing.
C19_ReadsCommitted ==
    [][(call = Idle /\ call'.op = "getBalance")
         => /\ call'.result = BalanceRead(balances, call'.address)
            /\ Unchanged /\ sessions' = sessions]_vars

\* C19 witness: getBalance returned the committed balance of an address
\* while an open transaction had changed that balance.
C19_Witness ==
    /\ call.op = "getBalance"
    /\ \E s \in Sessions :
          /\ call.address \in DOMAIN sessions[s].w.bal
          /\ sessions[s].w.bal[call.address] # 0
    /\ call.result = BalanceRead(balances, call.address)

\* C20: when a statement of addBlock or rollback throws, the call ends
\* thrown, without a verdict; the committed tables are as before, nothing
\* of the call's transaction is left (no write, no lock), and no other call
\* is touched: a repeated request finds what it would have found without
\* the failed call.
C20_FailureLeavesNoTrace ==
    [][\A s \in Sessions :
          (/\ sessions[s].pc # "done"
           /\ sessions'[s].pc = "done"
           /\ sessions'[s].result.error \notin
                 {"none", "InvalidHeight", "InvalidBlockId",
                  "UnspentOutputNotFound", "UnbalancedTransaction",
                  "TargetAboveCurrent"})
           => /\ sessions'[s].result = Thrown
              /\ Unchanged
              /\ sessions'[s].w = NoWrites
              /\ \A o \in Sessions \ {s} : sessions'[o] = sessions[o]]_vars

\* C20 witness: a rollback threw after its TRUNCATE and the committed
\* balances are still there; an addBlock threw at its COMMIT.
C20_Witness ==
    /\ balances # <<>>
    /\ sessions["s1"].op = "rollback" /\ sessions["s1"].pc = "done"
    /\ sessions["s1"].result = Thrown
    /\ sessions["s1"].threwAt = "recalculate"
    /\ sessions["s2"].op = "addBlock" /\ sessions["s2"].pc = "done"
    /\ sessions["s2"].result = Thrown
    /\ sessions["s2"].threwAt = "commit"

\* ------------------------------------------------------------ C21 .. C30
\* C21: every output is spent exactly when it has a spending height, and it
\* names a spending transaction exactly when it is spent.
C21_SpentFieldsAgree ==
    \A o \in outputs :
       /\ o.spent = (o.spent_at_height # NULL)
       /\ (o.spent_by_tx # NULL) = o.spent

\* C21 witness: a rollback has returned an output that a discarded block
\* had spent to unspent.
C21_Witness ==
    /\ RollbackReturned /\ call.result = Ok
    /\ \E o \in Freed(call) : o.spent_by_tx # NULL /\ Cleared(o) \in outputs

\* A two-transaction block whose second transaction spends, as its only
\* input, an output of the first, a transaction without inputs, and pays
\* out exactly its value.
ChainedSpend(block) ==
    /\ Len(block.transactions) = 2
    /\ LET t1 == block.transactions[1]
           t2 == block.transactions[2]
       IN /\ t1.inputs = <<>>
          /\ Len(t2.inputs) = 1
          /\ t2.inputs[1].txId = t1.id
          /\ t2.inputs[1].index < Len(t1.outputs)
          /\ SumOf(t2.outputs, 1) = t1.outputs[t2.inputs[1].index + 1].value

\* C22: a block of the next height with its own id and fresh transaction
\* ids, whose second transaction spends an output of its first, is
\* accepted, and that output ends spent at the height it was created at.
C22_SameBlockSpend ==
    [][(AddBlockCall /\ WellFormed(call'.block, blocks)
          /\ FreshIds(call'.block, outputs) /\ ChainedSpend(call'.block))
         => /\ call'.result = Ok
            /\ LET ref == call'.block.transactions[2].inputs[1]
               IN \E o \in outputs' :
                     /\ o.tx_id = ref.txId /\ o.output_index = ref.index
                     /\ o.spent
                     /\ o.spent_at_height = <<o.block_height>>]_vars

\* ------------------------------------------- calculateBlockId on its own
\* The block id as a function: the callers hand calculateBlockId a height
\* and a list of up to MaxIds transactions whose ids are strings of
\* different lengths, one of them a digit.
MaxIds == 3

IdStrings == {"a", "aa", "b", "0"}

\* The heights handed to calculateBlockId: the chain's, and their tenfold
\* (numerals of two digits).
IdHeights == Heights \cup {10 * h : h \in Heights}

IdLists == UNION {[1..n -> IdStrings] : n \in 0..MaxIds}

\* The transactions with the ids `ids`, all without inputs or all spending
\* a:0.
Payloads == {<<>>, <<[txId |-> "a", index |-> 0]>>}

WithIds(ids, inputs) ==
    [i \in 1..Len(ids) |->
        [id |-> ids[i], inputs |-> inputs,
         outputs |-> <<[address |-> "x", value |-> 1]>>]]

InitIds ==
    /\ blocks = {}
    /\ outputs = {}
    /\ balances = <<>>
    /\ observed = <<>>
    /\ minted = <<>>
    /\ sessions = [s \in Sessions |-> IdleSession]
    /\ \E height \in IdHeights, ids \in IdLists, inputs \in Payloads :
          call = [op |-> "request", height |-> height,
                  transactions |-> WithIds(ids, inputs)]

ComputeId ==
    /\ call.op = "request"
    /\ call' = [op |-> "calculateBlockId", height |-> call.height,
                transactions |-> call.transactions,
                id |-> calculateBlockId(call.height, call.transactions)]
    /\ UNCHANGED <<blocks, outputs, balances, observed, minted, sessions>>

NextIds == ComputeId

SpecIds == InitIds /\ [][NextIds]_vars

\* The lists that hold the entries of `ids` in another order.
Reorderings(ids) ==
    {[i \in 1..Len(ids) |-> ids[f[i]]] : f \in Permutations(1..Len(ids))}
       \ {ids}

SameLength(ids) == \A i, j \in 1..Len(ids) : Len(ids[i]) = Len(ids[j])

IdComputed == call.op = "calculateBlockId"

\* C23: the id depends on the height and the ordered transaction ids only,
\* and when the transaction ids all have the same length every reordering
\* of them into a different sequence has a different id.
C23_OrderChangesId ==
    IdComputed
      => LET ids == IdsOf(call.transactions)
         IN /\ \A inputs \in Payloads :
                  calculateBlockId(call.height, WithIds(ids, inputs)) = call.id
            /\ SameLength(ids)
                  => \A other \in Reorderings(ids) :
                        calculateBlockId(call.height, WithIds(other, <<>>))
                           # call.id

\* C23 witness: the id of three transactions with ids of one length, two of
\* them different, was computed.
C23_Witness ==
    /\ IdComputed
    /\ IdsOf(call.transactions) = <<"a", "b", "a">>
    /\ call.transactions[1].inputs # <<>>

\* C23 as stated: every reordering of the transaction ids into a different
\* sequence has a different id.
C23_AnyOrderChangesId ==
    IdComputed
      => \A other \in Reorderings(IdsOf(call.transactions)) :
            calculateBlockId(call.height, WithIds(other, <<>>)) # call.id

\* C24: a client that a call has released, after any outcome of addBlock
\* or rollback, has no transaction open.
C24_TransactionEnded ==
    \A s \in Sessions :
       sessions[s].pc \in {"done", "idle"} => ~sessions[s].txOpen

\* The same ledger entry: identity, address, value and height of creation.
SameEntry(o, p) ==
    /\ o.tx_id = p.tx_id /\ o.output_index = p.output_index
    /\ o.address = p.address /\ o.value = p.value
    /\ o.block_height = p.block_height

PostRollbackCall == call = Idle /\ call'.op = "postRollback"

\* The step is a successful rollback, called or requested, to a target
\* below `height`.
RolledBackBelow(height) ==
    \/ RollbackCall /\ call'.result = Ok /\ call'.targetHeight < height
    \/ PostRollbackCall /\ call'.status = 200 /\ call'.body.height < height

\* C25: in every step every output stays in the ledger with its address,
\* value and height of creation, unless the step is a successful rollback
\* to a target below that height; and an addBlock leaves every output that
\* no input of its block references exactly as it was.
C25_OutputsKept ==
    [][\A o \in outputs :
          /\ ~RolledBackBelow(o.block_height)
                => \E p \in outputs' : SameEntry(o, p)
          /\ (AddBlockCall /\ o \notin Referenced(call'.block, outputs))
                => o \in outputs']_vars

\* C25 witness: a rollback has discarded an output above its target and
\* kept one created at the target, after a block had spent another output.
C25_Witness ==
    /\ RollbackReturned /\ call.result = Ok
    /\ \E o \in call.before : o.block_height > call.targetHeight
    /\ \E o \in call.before, p \in outputs :
          o.block_height = call.targetHeight /\ SameEntry(o, p)
    /\ \E o \in call.before : o.spent

\* The decimal numerals, with or without a minus sign, and their values.
Numeral(text) ==
    text # <<>> /\ \A i \in 1..Len(text) : text[i] \in DigitChars

RECURSIVE NumeralValue(_, _)
NumeralValue(text, n) ==
    IF n = 0 THEN 0
    ELSE 10 * NumeralValue(text, n - 1)
           + (CHOOSE d \in 0..9 : ToString(d) = text[n])

Numeric(text) ==
    Numeral(text) \/ (text # <<>> /\ Head(text) = "-" /\ Numeral(Tail(text)))

NumericValue(text) ==
    IF Head(text) = "-" THEN 0 - NumeralValue(Tail(text), Len(text) - 1)
    ELSE NumeralValue(text, Len(text))

\* C26: POST /rollback without a height, or with a height that is not a
\* decimal numeral or is the numeral of a negative number, is answered 400
\* without a call of rollback and changes nothing; with the numeral of a
\* t >= 0 it is answered 200 with height t exactly when t is not above the
\* current height.
C26_PostRollback ==
    [][PostRollbackCall
         => LET p == call'.heightParam
            IN IF p = NULL \/ ~Numeric(p[1]) \/ NumericValue(p[1]) < 0
               THEN call'.status = 400 /\ ~call'.invoked /\ Unchanged
               ELSE LET t == NumericValue(p[1])
                    IN (/\ call'.status = 200
                        /\ call'.body = [success |-> TRUE, height |-> t])
                          <=> t <= TopHeight(blocks)]_vars

\* Session s ends its call in this step.
Ends(s) == sessions[s].pc # "done" /\ sessions'[s].pc = "done"

\* C27: a call of addBlock or rollback that returns a validation error is
\* answered 400, one that throws is answered 500, and a 200 is the answer
\* only to a call whose COMMIT has just succeeded (for addBlock: whose
\* block is in the committed chain).
C27_StatusByOutcome ==
    [][\A s \in Sessions :
          Ends(s)
            => LET r == sessions'[s]
               IN /\ r.result.error \notin {"none", "thrown"}
                       => r.status = 400
                  /\ r.result.error = "thrown" => r.status = 500
                  /\ r.status = 200
                       => /\ sessions[s].pc = "commit"
                          /\ r.result.error = "none"
                          /\ r.op = "addBlock"
                                => \E b \in blocks' :
                                      b.id = sessions[s].req.id]_vars

\* C27 witness: of two calls that have ended, a rollback threw and was
\* answered 500 and an addBlock was rejected and answered 400, on a chain
\* that a call answered 200 has built.
C27_Witness ==
    /\ blocks # {}
    /\ \E s, t \in Sessions :
          /\ sessions[s].pc = "done" /\ sessions[s].op = "rollback"
          /\ sessions[s].result.error = "thrown" /\ sessions[s].status = 500
          /\ sessions[t].pc = "done" /\ sessions[t].op = "addBlock"
          /\ sessions[t].result.error \notin {"none", "thrown"}
          /\ sessions[t].status = 400

WrongHeight(block, blks) == block.height # TopHeight(blks) + 1

WrongId(block) ==
    block.id # ClientBlockId(block.height, IdsOf(block.transactions))

\* C28: a block with a wrong height and a wrong id is rejected with
\* InvalidHeight, a block with the right height and a wrong id with
\* InvalidBlockId, and an addBlock that writes a block, an output or a
\* balance was given the right height and the right id.
C28_HeightBeforeId ==
    [][AddBlockCall
         => LET block == call'.block
            IN /\ (WrongHeight(block, blocks) /\ WrongId(block))
                    => call'.result.error = "InvalidHeight"
               /\ (~WrongHeight(block, blocks) /\ WrongId(block))
                    => call'.result.error = "InvalidBlockId"
               /\ ~Unchanged
                    => ~WrongHeight(block, blocks) /\ ~WrongId(block)]_vars

\* C28 witness: on a one-block chain a block of height 3 that carries the
\* id of its transactions in reverse order was rejected with InvalidHeight.
C28_Witness ==
    /\ AddBlockReturned
    /\ call.currentHeight = 1 /\ call.block.height = 3
    /\ Len(call.block.transactions) = 2
    /\ call.block.id
          = ClientBlockId(3, Reverse(IdsOf(call.block.transactions)))
    /\ WrongId(call.block)
    /\ call.result.error = "InvalidHeight"

\* The inputs of transaction k of a block that reference no unspent output
\* of `outs`.
MissingRefs(block, k, outs) ==
    {i \in 1..Len(block.transactions[k].inputs) :
        NotUnspent(outs, block.transactions[k].inputs[i])}

\* Transaction k has inputs, and the outputs of `outs` they reference are
\* not worth what it pays out.
UnbalancedAt(block, k, outs) ==
    LET tx == block.transactions[k]
        one == [block EXCEPT !.transactions = <<tx>>]
    IN /\ tx.inputs # <<>>
       /\ TotalValue(Referenced(one, outs)) # SumOf(tx.outputs, 1)

\* An input references an output of an earlier transaction of the block.
SpendsEarlier(block) ==
    \E k \in 1..Len(block.transactions) :
       \E i \in 1..Len(block.transactions[k].inputs), j \in 1..(k - 1) :
          /\ block.transactions[k].inputs[i].txId = block.transactions[j].id
          /\ block.transactions[k].inputs[i].index
                < Len(block.transactions[j].outputs)

Least(S) == CHOOSE n \in S : \A m \in S : n <= m

\* C29: of a block of the next height with its own id, whose inputs
\* reference different outputs and none of an earlier transaction of the
\* block, an addBlock that does not throw returns the error of the first
\* transaction that has an error, and for that transaction the error of
\* its first input without an unspent output before the error of its sums.
C29_FirstFailureReported ==
    [][(AddBlockCall /\ WellFormed(call'.block, blocks)
          /\ ~HasDuplicateRef(call'.block) /\ ~SpendsEarlier(call'.block)
          /\ call'.result.error # "thrown")
         => LET block == call'.block
                F == {k \in 1..Len(block.transactions) :
                        \/ MissingRefs(block, k, outputs) # {}
                        \/ UnbalancedAt(block, k, outputs)}
            IN IF F = {} THEN call'.result = Ok
               ELSE LET k == Least(F)
                        tx == block.transactions[k]
                        M == MissingRefs(block, k, outputs)
                    IN IF M # {}
                       THEN /\ call'.result.error = "UnspentOutputNotFound"
                            /\ call'.result.detail
                                  = <<tx.inputs[Least(M)].txId,
                                      tx.inputs[Least(M)].index>>
                       ELSE /\ call'.result.error = "UnbalancedTransaction"
                            /\ call'.result.detail[3] = tx.id]_vars

\* C29 witness: a block was rejected for the missing input of its first
\* transaction, whose sums differ too, while its second transaction spends
\* an output worth more than it pays out.
C29_Witness ==
    /\ AddBlockReturned
    /\ Len(call.block.transactions) = 2
    /\ call.result.error = "UnspentOutputNotFound"
    /\ MissingRefs(call.block, 1, outputs) # {}
    /\ MissingRefs(call.block, 2, outputs) = {}
    /\ UnbalancedAt(call.block, 2, outputs)

\* C30: after an accepted block of height H every output that an input of
\* a transaction T references is spent by T at H, and output j of every
\* transaction T is the ledger entry (T.id, j) with its address and value,
\* created at H and unspent (unless an input of the block spends it).
C30_AcceptedBlockEffects ==
    [][(AddBlockCall /\ call'.result = Ok)
         => LET block == call'.block
            IN /\ \A p \in InputsOf(block) :
                    \E o \in outputs' :
                       /\ o.tx_id = InputAt(block, p).txId
                       /\ o.output_index = InputAt(block, p).index
                       /\ o.spent
                       /\ o.spent_by_tx = <<block.transactions[p[1]].id>>
                       /\ o.spent_at_height = <<block.height>>
               /\ \A q \in OutputsOf(block) :
                    \E o \in outputs' :
                       /\ o.tx_id = block.transactions[q[1]].id
                       /\ o.output_index = q[2] - 1
                       /\ o.address = OutputAt(block, q).address
                       /\ o.value = OutputAt(block, q).value
                       /\ o.block_height = block.height
                       /\ o.spent
                            => \E p \in InputsOf(block) :
                                  InputAt(block, p)
                                     = [txId |-> o.tx_id,
                                        index |-> o.output_index]]_vars

\* ------------------------------------------------------------ C31 .. C39
\* Session s gets the answer of the statement it waits for at `pc`.
Answered(s, pc) ==
    /\ sessions[s].pc = pc /\ sessions'[s].pc # pc
    /\ sessions'[s].result.error # "thrown"

\* C31: the height check of every call and the lookup of every input are
\* decided by the committed blocks and outputs alone, whatever other calls
\* have written and not committed: the height check fails exactly when the
\* committed height requires it, and a lookup finds exactly an unspent
\* committed output.
C31_UncommittedInvisible ==
    [][\A s \in Sessions :
          /\ (Answered(s, "height") /\ sessions[s].op = "addBlock")
                => (sessions'[s].result.error = "InvalidHeight"
                      <=> sessions[s].req.height # TopHeight(blocks) + 1)
          /\ (Answered(s, "height") /\ sessions[s].op = "rollback")
                => (sessions'[s].result.error = "TargetAboveCurrent"
                      <=> sessions[s].req > TopHeight(blocks))
          /\ Answered(s, "lookup")
                => LET rec == sessions[s]
                       ref == rec.req.transactions[rec.k].inputs[rec.i]
                   IN IF NotUnspent(outputs, ref)
                      THEN sessions'[s].result.error = "UnspentOutputNotFound"
                      ELSE /\ sessions'[s].pc = "markSpent"
                           /\ sessions'[s].found \in outputs
                           /\ sessions'[s].found.tx_id = ref.txId
                           /\ sessions'[s].found.output_index = ref.index
                           /\ ~sessions'[s].found.spent]_vars

\* C31 witness: a rollback has read the committed height and passed its
\* check while another call holds an uncommitted block above that height.
C31_Witness ==
    \E s, t \in Sessions :
       /\ \E b \in sessions[s].w.insB : b.height > TopHeight(blocks)
       /\ sessions[t].op = "rollback" /\ sessions[t].pc = "unspend"
       /\ sessions[t].currentHeight = TopHeight(blocks)
       /\ sessions[t].req = TopHeight(blocks)

\* An output of the block has the identity of an output of `outs` or of an
\* output of an earlier transaction of the block.
Collides(block, outs) ==
    \E q \in OutputsOf(block) :
       \/ \E o \in outs : /\ o.tx_id = block.transactions[q[1]].id
                           /\ o.output_index = q[2] - 1
       \/ \E r \in OutputsOf(block) :
             /\ r[1] < q[1] /\ r[2] = q[2]
             /\ block.transactions[r[1]].id = block.transactions[q[1]].id

\* C32: no two outputs ever have one identity, and an addBlock whose block
\* would create an output with the identity of a ledger output or of an
\* earlier output of the block is not accepted and changes nothing.
C32_UniqueOutputs ==
    [][/\ \A o, p \in outputs' :
             (o.tx_id = p.tx_id /\ o.output_index = p.output_index) => o = p
       /\ (AddBlockCall /\ Collides(call'.block, outputs))
             => call'.result # Ok /\ Unchanged]_vars

\* C32 witness: a block of the next height with its own id, whose inputs
\* are in order, threw on the insert of an output that the ledger holds.
C32_Witness ==
    /\ AddBlockReturned
    /\ call.result.error = "thrown"
    /\ WellFormed(call.block, blocks)
    /\ \E q \in OutputsOf(call.block), o \in outputs :
          /\ o.tx_id = call.block.transactions[q[1]].id
          /\ o.output_index = q[2] - 1

\* C33: among concurrent addBlock calls, a call commits a block only of a
\* height that no committed block has and leaves one block at most at
\* every height; the outputs its inputs reference were unspent in the
\* committed ledger and are then spent by its transaction; and a call that
\* ends without committing leaves blocks, outputs and balances as they
\* were.
C33_OneBlockPerHeight ==
    [][\A s \in Sessions :
          (Ends(s) /\ sessions[s].op = "addBlock")
            => IF sessions'[s].result = Ok
               THEN LET block == sessions[s].req
                    IN /\ \A b \in blocks : b.height # block.height
                       /\ \A b, c \in blocks' : b.height = c.height => b = c
                       /\ \A p \in InputsOf(block) :
                             /\ ~NotUnspent(outputs, InputAt(block, p))
                             /\ \E o \in outputs' :
                                   /\ o.tx_id = InputAt(block, p).txId
                                   /\ o.output_index = InputAt(block, p).index
                                   /\ o.spent_by_tx
                                        = <<block.transactions[p[1]].id>>
               ELSE Unchanged]_vars

\* C33 witness: of two calls that sent a block of one height and both
\* passed the height check, one has committed and the other has ended
\* thrown on its insert of the block.
C33_Witness ==
    \E s, t \in Sessions :
       /\ sessions[s].pc = "done" /\ sessions[s].op = "addBlock"
       /\ sessions[s].result = Ok
       /\ sessions[t].pc = "done" /\ sessions[t].op = "addBlock"
       /\ sessions[t].result.error = "thrown"
       /\ sessions[t].threwAt = "insertBlock"
       /\ Cardinality(blocks) = TopHeight(blocks)

\* C34: a rollback to t that follows a successful rollback to t succeeds
\* and leaves the blocks, the outputs and the balances of the first.
C34_RollbackIdempotent ==
    [][(call.op = "rollback" /\ call'.op = "rollbackAgain")
         => call'.result = Ok /\ Unchanged]_vars

\* C34 witness: the repeated rollback followed one that discarded a block
\* and freed an output, on a chain that keeps an unspent output.
C34_Witness ==
    /\ call.op = "rollbackAgain"
    /\ call.first.currentHeight > call.targetHeight
    /\ Freed(call.first) # {}
    /\ balances # <<>>

\* The sum of all balance rows.
RECURSIVE SumBalances(_, _)
SumBalances(bal, A) ==
    IF A = {} THEN 0
    ELSE LET a == CHOOSE e \in A : TRUE
         IN bal[a] + SumBalances(bal, A \ {a})

\* The sum of a sequence of numbers.
RECURSIVE SumSeq(_, _)
SumSeq(seq, i) == IF i > Len(seq) THEN 0 ELSE seq[i] + SumSeq(seq, i + 1)

\* C35: the sum of all balances is the total value of the outputs that the
\* zero-input transactions of the recorded blocks created.
C35_BalancesSumToCoinbase ==
    SumBalances(balances, DOMAIN balances)
       = SumSeq(minted, 1)

\* C36: the output values being non-negative, no address has a negative
\* balance.
C36_NoNegativeBalance ==
    \A a \in Addresses : BalanceRead(balances, a) >= 0

\* C37: in every committed state, with the chain at height h, every output
\* was created at a height from 1 to h that has a recorded block, and every
\* spent output was spent at a height from its creation height to h.
C37_HeightsWithinChain ==
    LET h == TopHeight(blocks)
    IN \A o \in outputs :
          /\ 1 <= o.block_height /\ o.block_height <= h
          /\ \E b \in blocks : b.height = o.block_height
          /\ o.spent
               => /\ o.spent_at_height # NULL
                  /\ o.block_height <= o.spent_at_height[1]
                  /\ o.spent_at_height[1] <= h

\* An id that begins with a decimal digit.
BeginsWithDigit(id) ==
    \E d \in DigitChars, rest \in IdStrings \cup {""} : id = d \o rest

NoLeadingDigit(ids) == \A i \in 1..Len(ids) : ~BeginsWithDigit(ids[i])

\* The lists of ids of one length that do not begin with a digit.
LetterLists == {ids \in IdLists : SameLength(ids) /\ NoLeadingDigit(ids)}

InCall(s) == sessions[s].pc \notin {"idle", "done"}

\* C39: a call holds the client it acquired until it ends and has released
\* it exactly once when it has ended, however it ended; the clients of the
\* calls that are over are back in the pool.
C39_ClientReleasedOnce ==
    \A s \in Sessions :
       /\ InCall(s)
            => sessions[s].checkedOut /\ sessions[s].released = 0
       /\ sessions[s].pc = "done"
            => ~sessions[s].checkedOut /\ sessions[s].released = 1
       /\ sessions[s].pc = "idle" => ~sessions[s].checkedOut

\* C39 witness: one call has ended with an exception and the other with a
\* validation error.
C39_Witness ==
    \E s, t \in Sessions :
       /\ sessions[s].pc = "done" /\ sessions[s].result = Thrown
       /\ sessions[t].pc = "done"
       /\ sessions[t].result \notin {Ok, Thrown}

====
